---- MODULE Spec2Model ----
(***************************************************************************)
(* The format-checker registry of gojsonschema (format_checkers.go): the   *)
(* FormatCheckerChain with its package-level RWMutex, and the built-in     *)
(* FormatChecker implementations.                                          *)
(*                                                                         *)
(* A Go string is a sequence of one-character strings.  A decoded JSON     *)
(* value (interface{}) is a record whose field type names its dynamic type.*)
(***************************************************************************)
EXTENDS Integers, Sequences, FiniteSets, TLC

(***************************************************************************)
(* Bounds of the model.                                                    *)
(***************************************************************************)
\* completed calls recorded by the sequential caller
MaxOps == 3
\* longest uri-template input
MaxTemplateLen == 4
\* longest hostname input
MaxHostLen == 257

\* the IsFormat calls of one thread that may be suspended in a checker at a time
MaxDepth == 2

(***************************************************************************)
(* package regexp: patterns as syntax trees, matched by stepping the set   *)
(* of residual patterns over the input one character at a time.            *)
(***************************************************************************)
\* the characters the model's strings are built from
Chars == {"a", "0", "1", "-", ".", "_", ":", "?", "#", "{", "}", "\\", "/", "~", "@"}

Letters == {"a"}

Digits == {"0", "1"}

AlNum == Letters \cup Digits

Eps == <<"eps">>

Chr(S) == <<"chr", S>>

Alt(a, b) == <<"alt", a, b>>

Cat(a, b) == IF a = <<"eps">> THEN b ELSE <<"cat", a, b>>

Star(a) == <<"star", a>>

\* a{lo,hi}
Rep(a, lo, hi) == <<"rep", a, lo, hi>>

\* a?
Opt(a) == Alt(a, Eps)

RECURSIVE Nullable(_)
Nullable(r) ==
    CASE r[1] = "eps"  -> TRUE
      [] r[1] = "chr"  -> FALSE
      [] r[1] = "alt"  -> Nullable(r[2]) \/ Nullable(r[3])
      [] r[1] = "cat"  -> Nullable(r[2]) /\ Nullable(r[3])
      [] r[1] = "star" -> TRUE
      [] r[1] = "rep"  -> r[3] = 0 \/ Nullable(r[2])

\* the residual patterns of r after reading the character c
RECURSIVE Deriv(_, _)
Deriv(r, c) ==
    CASE r[1] = "eps"  -> {}
      [] r[1] = "chr"  -> IF c \in r[2] THEN {Eps} ELSE {}
      [] r[1] = "alt"  -> Deriv(r[2], c) \cup Deriv(r[3], c)
      [] r[1] = "cat"  ->
            {Cat(d, r[3]) : d \in Deriv(r[2], c)}
              \cup (IF Nullable(r[2]) THEN Deriv(r[3], c) ELSE {})
      [] r[1] = "star" -> {Cat(d, r) : d \in Deriv(r[2], c)}
      [] r[1] = "rep"  ->
            IF r[4] = 0 THEN {}
            ELSE {Cat(d, Rep(r[2], IF r[3] > 0 THEN r[3] - 1 ELSE 0, r[4] - 1)) :
                     d \in Deriv(r[2], c)}

\* one step of the matcher: every thread advances over c
RxStep(threads, c) == UNION {Deriv(r, c) : r \in threads}

\* the matcher has reached the end of the text in an accepting thread
RxAccepts(threads) == \E r \in threads : Nullable(r)

RECURSIVE RxRun(_, _, _)
RxRun(threads, s, i) ==
    IF i > Len(s) THEN threads ELSE RxRun(RxStep(threads, s[i]), s, i + 1)

\* (*Regexp).MatchString for a pattern anchored with ^ and $
MatchString(rx, s) == RxAccepts(RxRun({rx}, s, 1))

\* [a-zA-Z0-9]|[a-zA-Z0-9][a-zA-Z0-9\-]{0,61}[a-zA-Z0-9]
rxHostnameLabel ==
    Alt(Chr(AlNum),
        Cat(Chr(AlNum), Cat(Rep(Chr(AlNum \cup {"-"}), 0, 61), Chr(AlNum))))

\* ^(label)(\.(label))*$
rxHostname == Cat(rxHostnameLabel, Star(Cat(Chr({"."}), rxHostnameLabel)))

\* ^([^{]*({[^}]*})?)*$
rxURITemplate ==
    Star(Cat(Star(Chr(Chars \ {"{"})),
             Opt(Cat(Chr({"{"}), Cat(Star(Chr(Chars \ {"}"})), Chr({"}"}))))))


\* ^[a-f0-9]{8}-[a-f0-9]{4}-[a-f0-9]{4}-[a-f0-9]{4}-[a-f0-9]{12}$
rxUUID ==
    Cat(Rep(Chr(AlNum), 8, 8), Cat(Chr({"-"}),
    Cat(Rep(Chr(AlNum), 4, 4), Cat(Chr({"-"}),
    Cat(Rep(Chr(AlNum), 4, 4), Cat(Chr({"-"}),
    Cat(Rep(Chr(AlNum), 4, 4), Cat(Chr({"-"}), Rep(Chr(AlNum), 12, 12)))))))))

\* (?:/(?:[^~/]|~0|~1)*)*
rxPointerSegments ==
    Star(Cat(Chr({"/"}),
             Star(Alt(Chr(Chars \ {"~", "/"}),
                      Alt(Cat(Chr({"~"}), Chr({"0"})), Cat(Chr({"~"}), Chr({"1"})))))))

\* ^(?:/(?:[^~/]|~0|~1)*)*$
rxJSONPointer == rxPointerSegments

\* ^(?:0|[1-9][0-9]*)(?:#|(?:/(?:[^~/]|~0|~1)*)*)$
rxRelJSONPointer ==
    Cat(Alt(Chr({"0"}), Cat(Chr({"1"}), Star(Chr(Digits)))),
        Alt(Chr({"#"}), rxPointerSegments))

(***************************************************************************)
(* Values handed to a checker, and the library parsers the checkers call.  *)
(***************************************************************************)
Str(s) == [type |-> "string", s |-> s]

NonString(t) == [type |-> t, s |-> <<>>]

NonStringTypes == {"null", "boolean", "number", "sequence", "mapping"}

\* the strings callers of the registry pass
RegistryStrings == {<<"a">>, <<"-">>, <<"a", ":", "a">>, <<"a", "@", "a">>, <<":", ":">>}

Values == {NonString(t) : t \in NonStringTypes} \cup {Str(s) : s \in RegistryStrings}

\* asString, ok := input.(string)
IsString(input) == input.type = "string"

Contains(s, c) == \E i \in 1..Len(s) : s[i] = c

\* strings.Cut(s, c): the text before the first c, all of s when there is none
Before(s, c) ==
    IF Contains(s, c)
    THEN SubSeq(s, 1, (CHOOSE i \in 1..Len(s) : s[i] = c /\ \A j \in 1..(i - 1) : s[j] # c) - 1)
    ELSE s

\* net/url getScheme: the index of the character that ends the scan for a
\* scheme, 0 when the scan runs to the end of the text
SchemeStop(s) ==
    LET stops == {i \in 1..Len(s) :
                     /\ s[i] \notin Letters
                     /\ ~(i > 1 /\ s[i] \in Digits \cup {"-", "."})}
    IN  IF stops = {} THEN 0 ELSE CHOOSE i \in stops : \A j \in stops : i <= j

\* url.Parse on a text without '/', '%' or control characters: the fragment
\* is cut at the first '#', the scheme at the first ':' that follows letters,
\* the query at the first '?'.  A text with a scheme and no leading '/' is
\* opaque and has an empty Path; without a scheme a ':' in the first path
\* segment is an error.
urlParse(s) ==
    LET u      == Before(s, "#")
        stop   == SchemeStop(u)
        colon  == stop > 0 /\ u[stop] = ":"
        Scheme == IF colon THEN SubSeq(u, 1, stop - 1) ELSE <<>>
        rest   == Before(IF colon THEN SubSeq(u, stop + 1, Len(u)) ELSE u, "?")
    IN  IF colon /\ stop = 1 THEN [err |-> TRUE, Scheme |-> <<>>, Path |-> <<>>]
        ELSE IF Scheme # <<>> THEN [err |-> FALSE, Scheme |-> Scheme, Path |-> <<>>]
        ELSE IF Contains(rest, ":") THEN [err |-> TRUE, Scheme |-> <<>>, Path |-> <<>>]
        ELSE [err |-> FALSE, Scheme |-> <<>>, Path |-> rest]

\* mail.ParseAddress succeeds: of the registry strings, on "a@a"
mailParseAddress(s) == s \in {<<"a", "@", "a">>}

\* net.ParseIP returns an address: of the registry strings, for "::"
netParseIP(s) == s \in {<<":", ":">>}

\* time.Parse succeeds under the layout: no registry string holds a digit
timeParse(layout, s) == s \in {}

\* regexp.Compile succeeds: every registry string is a pattern
regexpCompile(s) == s \in RegistryStrings

(***************************************************************************)
(* The built-in checkers.                                                  *)
(***************************************************************************)
EmailFormatChecker(input) ==
    IF ~IsString(input) THEN FALSE ELSE mailParseAddress(input.s)

IPV4FormatChecker(input) ==
    IF ~IsString(input) THEN FALSE
    ELSE netParseIP(input.s) /\ Contains(input.s, ".")

IPV6FormatChecker(input) ==
    IF ~IsString(input) THEN FALSE
    ELSE netParseIP(input.s) /\ Contains(input.s, ":")

DateTimeFormatChecker(input) ==
    IF ~IsString(input) THEN FALSE
    ELSE \E format \in {"15:04:05", "15:04:05Z07:00", "2006-01-02",
                        "RFC3339", "RFC3339Nano"} : timeParse(format, input.s)

DateFormatChecker(input) ==
    IF ~IsString(input) THEN FALSE ELSE timeParse("2006-01-02", input.s)

TimeFormatChecker(input) ==
    IF ~IsString(input) THEN FALSE
    ELSE IF timeParse("15:04:05Z07:00", input.s) THEN TRUE
    ELSE timeParse("15:04:05", input.s)

URIFormatChecker(input) ==
    IF ~IsString(input) THEN FALSE
    ELSE LET u == urlParse(input.s)
         IN  IF u.err \/ u.Scheme = <<>> THEN FALSE
             ELSE ~Contains(input.s, "\\")

URIReferenceFormatChecker(input) ==
    IF ~IsString(input) THEN FALSE
    ELSE ~urlParse(input.s).err /\ ~Contains(input.s, "\\")

URITemplateFormatChecker(input) ==
    IF ~IsString(input) THEN FALSE
    ELSE LET u == urlParse(input.s)
         IN  IF u.err \/ Contains(input.s, "\\") THEN FALSE
             ELSE MatchString(rxURITemplate, u.Path)

\* the length test letting 256 characters through
HostnameVerdict_LenInclusive(threads, n) == RxAccepts(threads) /\ n <= 256

\* the hostname checker's verdict on a text of length n that leaves the
\* matcher of rxHostname in the given threads
HostnameVerdict(threads, n) == RxAccepts(threads) /\ n < 256

HostnameFormatChecker(input) ==
    IF ~IsString(input) THEN FALSE
    ELSE HostnameVerdict(RxRun({rxHostname}, input.s, 1), Len(input.s))

UUIDFormatChecker(input) ==
    IF ~IsString(input) THEN FALSE
    ELSE IF ~MatchString(rxUUID, input.s) THEN FALSE ELSE TRUE

\* the regex checker discarding the outcome of the type assertion
RegexFormatChecker_NoTypeCheck(input) ==
    IF input.s = <<>> THEN TRUE ELSE regexpCompile(input.s)

RegexFormatChecker(input) ==
    IF ~IsString(input) THEN FALSE
    ELSE IF input.s = <<>> THEN TRUE ELSE regexpCompile(input.s)

JSONPointerFormatChecker(input) ==
    IF ~IsString(input) THEN FALSE ELSE MatchString(rxJSONPointer, input.s)

RelativeJSONPointerFormatChecker(input) ==
    IF ~IsString(input) THEN FALSE ELSE MatchString(rxRelJSONPointer, input.s)

\* a FormatChecker a library user registers: it accepts every value
AnyValueChecker(input) == TRUE

\* a FormatChecker a library user registers: its IsFormat calls a method of the
\* registry and then accepts the value
ReentrantChecker(input) == TRUE

BuiltinCheckers ==
    {"DateFormatChecker", "TimeFormatChecker", "DateTimeFormatChecker",
     "HostnameFormatChecker", "EmailFormatChecker", "IPV4FormatChecker",
     "IPV6FormatChecker", "URIFormatChecker", "URIReferenceFormatChecker",
     "URITemplateFormatChecker", "UUIDFormatChecker", "RegexFormatChecker",
     "JSONPointerFormatChecker", "RelativeJSONPointerFormatChecker"}

\* f.IsFormat(input) on the FormatChecker interface: dispatch on the dynamic type
CheckerIsFormat(f, input) ==
    CASE f = "DateFormatChecker"                -> DateFormatChecker(input)
      [] f = "TimeFormatChecker"                -> TimeFormatChecker(input)
      [] f = "DateTimeFormatChecker"            -> DateTimeFormatChecker(input)
      [] f = "HostnameFormatChecker"            -> HostnameFormatChecker(input)
      [] f = "EmailFormatChecker"               -> EmailFormatChecker(input)
      [] f = "IPV4FormatChecker"                -> IPV4FormatChecker(input)
      [] f = "IPV6FormatChecker"                -> IPV6FormatChecker(input)
      [] f = "URIFormatChecker"                 -> URIFormatChecker(input)
      [] f = "URIReferenceFormatChecker"        -> URIReferenceFormatChecker(input)
      [] f = "URITemplateFormatChecker"         -> URITemplateFormatChecker(input)
      [] f = "UUIDFormatChecker"                -> UUIDFormatChecker(input)
      [] f = "RegexFormatChecker"               -> RegexFormatChecker(input)
      [] f = "JSONPointerFormatChecker"         -> JSONPointerFormatChecker(input)
      [] f = "RelativeJSONPointerFormatChecker" -> RelativeJSONPointerFormatChecker(input)
      [] f = "AnyValueChecker"                  -> AnyValueChecker(input)
      [] f = "ReentrantChecker"                 -> ReentrantChecker(input)

(***************************************************************************)
(* The registry: FormatCheckerChain and the package-level lock.            *)
(***************************************************************************)
VARIABLES
    formatters,  \* FormatCheckers.formatters: name -> FormatCheckerWithError
    lock,        \* the RWMutex: the writer that holds or awaits it, the readers
    pc,          \* per thread, the line of the method it is at
    frame,       \* per thread, the arguments and locals of its call
    hist,        \* the calls the sequential caller has completed, with results
    seen,        \* per IsFormat call in flight, the bindings its name has had
    asString,    \* the text handed to the uri-template checker
    verdict,     \* <<b>> once the uri-template checker has returned b for it
    host,        \* the hostname checker at work on a text, one character at a time
    chains,      \* the formatters of the other FormatCheckerChain values
    stack        \* per thread, the IsFormat calls suspended in a checker, innermost first

vars == <<formatters, lock, pc, frame, hist, seen, asString, verdict, host, chains, stack>>

\* the other chains and the suspended calls
chainVars == <<chains, stack>>

\* the variables the registry's methods leave alone
checkerVars == <<asString, verdict, host>>

\* the adapter a FormatChecker is stored under
convertToNewChecker(f) == [checker |-> f]

\* IsFormat of the stored adapter: the wrapped checker's verdict
WithErrorIsFormat(w, input) == CheckerIsFormat(w.checker, input)

\* the zero value a lookup yields for a missing key
Nil == [checker |-> "nil"]

\* the literal with "iri" bound to the uri-reference checker
BuiltinFormatters_IriAsReference ==
    [name \in {"date", "time", "date-time", "hostname", "email", "idn-email",
               "ipv4", "ipv6", "uri", "uri-reference", "iri", "iri-reference",
               "uri-template", "uuid", "regex", "json-pointer",
               "relative-json-pointer"} |->
        convertToNewChecker(
            CASE name = "date"                  -> "DateFormatChecker"
              [] name = "time"                  -> "TimeFormatChecker"
              [] name = "date-time"             -> "DateTimeFormatChecker"
              [] name = "hostname"              -> "HostnameFormatChecker"
              [] name = "email"                 -> "EmailFormatChecker"
              [] name = "idn-email"             -> "EmailFormatChecker"
              [] name = "ipv4"                  -> "IPV4FormatChecker"
              [] name = "ipv6"                  -> "IPV6FormatChecker"
              [] name = "uri"                   -> "URIFormatChecker"
              [] name = "uri-reference"         -> "URIReferenceFormatChecker"
              [] name = "iri"                   -> "URIReferenceFormatChecker"
              [] name = "iri-reference"         -> "URIReferenceFormatChecker"
              [] name = "uri-template"          -> "URITemplateFormatChecker"
              [] name = "uuid"                  -> "UUIDFormatChecker"
              [] name = "regex"                 -> "RegexFormatChecker"
              [] name = "json-pointer"          -> "JSONPointerFormatChecker"
              [] name = "relative-json-pointer" -> "RelativeJSONPointerFormatChecker")]

\* the composite literal FormatCheckers is initialised with
BuiltinFormatters ==
    [name \in {"date", "time", "date-time", "hostname", "email", "idn-email",
               "ipv4", "ipv6", "uri", "uri-reference", "iri", "iri-reference",
               "uri-template", "uuid", "regex", "json-pointer",
               "relative-json-pointer"} |->
        convertToNewChecker(
            CASE name = "date"                  -> "DateFormatChecker"
              [] name = "time"                  -> "TimeFormatChecker"
              [] name = "date-time"             -> "DateTimeFormatChecker"
              [] name = "hostname"              -> "HostnameFormatChecker"
              [] name = "email"                 -> "EmailFormatChecker"
              [] name = "idn-email"             -> "EmailFormatChecker"
              [] name = "ipv4"                  -> "IPV4FormatChecker"
              [] name = "ipv6"                  -> "IPV6FormatChecker"
              [] name = "uri"                   -> "URIFormatChecker"
              [] name = "uri-reference"         -> "URIReferenceFormatChecker"
              [] name = "iri"                   -> "URIFormatChecker"
              [] name = "iri-reference"         -> "URIReferenceFormatChecker"
              [] name = "uri-template"          -> "URITemplateFormatChecker"
              [] name = "uuid"                  -> "UUIDFormatChecker"
              [] name = "regex"                 -> "RegexFormatChecker"
              [] name = "json-pointer"          -> "JSONPointerFormatChecker"
              [] name = "relative-json-pointer" -> "RelativeJSONPointerFormatChecker")]

\* a store that keeps the binding a name already has
MapStore_KeepExisting(m, name, w) ==
    IF name \in DOMAIN m THEN m
    ELSE [k \in DOMAIN m \cup {name} |-> IF k = name THEN w ELSE m[k]]

\* c.formatters[name] = fmtCheckerWithErr
MapStore(m, name, w) == [k \in DOMAIN m \cup {name} |-> IF k = name THEN w ELSE m[k]]

\* a delete that leaves the map as it is
MapDelete_Noop(m, name) == m

\* a delete that puts the built-in binding of the name back
MapDelete_RestoreBuiltin(m, name) ==
    IF name \in DOMAIN m /\ name \in {"hostname"}
    THEN [k \in DOMAIN m |-> IF k = name THEN [checker |-> "HostnameFormatChecker"] ELSE m[k]]
    ELSE [k \in DOMAIN m \ {name} |-> m[k]]

\* delete(c.formatters, name)
MapDelete(m, name) == [k \in DOMAIN m \ {name} |-> m[k]]

\* f, ok := c.formatters[name]
MapLookup(m, name) ==
    IF name \in DOMAIN m THEN [f |-> m[name], ok |-> TRUE] ELSE [f |-> Nil, ok |-> FALSE]

\* IsFormat failing a format it does not know
IsFormatReturn_UnknownFails(f, ok, input) ==
    IF ~ok THEN FALSE ELSE WithErrorIsFormat(f, input)

\* what IsFormat returns once the lookup has yielded f, ok
IsFormatReturn(f, ok, input) == IF ~ok THEN TRUE ELSE WithErrorIsFormat(f, input)

\* Has on the map m, called with no other call in progress
HasOn(m, name) == MapLookup(m, name).ok

\* IsFormat on the map m, called with no other call in progress
IsFormatOn(m, name, input) ==
    LET r == MapLookup(m, name) IN IsFormatReturn(r.f, r.ok, input)

(***************************************************************************)
(* Callers.  "main" calls the registry sequentially and its completed      *)
(* calls are recorded; the threads of Threads call it concurrently.        *)
(***************************************************************************)
Threads == {"t1", "t2"}

\* the threads that call methods on two FormatCheckerChain values
ChainThreads == {"c1", "c2"}

\* the threads that register checkers which call the registry themselves
ReentrantThreads == {"r1", "r2"}

\* the format names callers pass
NameArgs == {"hostname", "x-custom"}

NameArgsOf(t) == IF t \in ChainThreads \cup ReentrantThreads THEN {"x-custom"} ELSE NameArgs

\* the checkers callers register
CheckerArgs == {"AnyValueChecker", "HostnameFormatChecker"}

CheckerArgsOf(t) ==
    IF t \in ReentrantThreads THEN {"AnyValueChecker", "ReentrantChecker"} ELSE CheckerArgs

\* the values the sequential caller passes
SeqValues == {NonString("null"), Str(<<"a">>), Str(<<"-">>)}

\* the values concurrent callers pass
RaceValues == {NonString("null"), Str(<<"a">>)}

InputArgs(t) ==
    IF t = "main" THEN SeqValues
    ELSE IF t \in Threads THEN RaceValues
    ELSE {Str(<<"a">>)}

\* the FormatCheckerChain values methods are called on: the package's
\* FormatCheckers and the other chains of the program
ReceiverArgs == {"FormatCheckers"} \cup DOMAIN chains

\* c.formatters
FormattersOf(c) == IF c = "FormatCheckers" THEN formatters ELSE chains[c]

NoInput == [type |-> "none", s |-> <<>>]

NoFrame ==
    [c |-> "nil", name |-> "", checker |-> "nil", input |-> NoInput, f |-> Nil, ok |-> FALSE]

\* a call by t is recorded when t is the sequential caller
Record(t, call) == IF t = "main" THEN Append(hist, call) ELSE hist

\* the bindings an IsFormat call of t starts with, for the threads observed
SeenStart(t, b) == IF t \in DOMAIN seen THEN [seen EXCEPT ![t] = b] ELSE seen

\* t enters a method of chain c; its locals are fresh
Enter(t, c) ==
    \/ \E name \in NameArgsOf(t), f \in CheckerArgsOf(t) :
         /\ pc' = [pc EXCEPT ![t] = "Add153"]
         /\ frame' = [frame EXCEPT ![t] =
                         [NoFrame EXCEPT !.c = c, !.name = name, !.checker = f]]
         /\ seen' = seen
    \/ \E name \in NameArgsOf(t) :
         /\ pc' = [pc EXCEPT ![t] = "Remove163"]
         /\ frame' = [frame EXCEPT ![t] = [NoFrame EXCEPT !.c = c, !.name = name]]
         /\ seen' = seen
    \/ \E name \in NameArgsOf(t) :
         /\ pc' = [pc EXCEPT ![t] = "Has172"]
         /\ frame' = [frame EXCEPT ![t] = [NoFrame EXCEPT !.c = c, !.name = name]]
         /\ seen' = seen
    \/ \E name \in NameArgsOf(t), input \in InputArgs(t) :
         /\ pc' = [pc EXCEPT ![t] = "IsFormat182"]
         /\ frame' = [frame EXCEPT ![t] =
                         [NoFrame EXCEPT !.c = c, !.name = name, !.input = input]]
         /\ seen' = SeenStart(t, {MapLookup(FormattersOf(c), name).f})

Call(t) ==
    /\ pc[t] = "idle"
    /\ t = "main" => Len(hist) < MaxOps
    /\ \E c \in ReceiverArgs : Enter(t, c)
    /\ UNCHANGED <<formatters, lock, hist, checkerVars, chainVars>>

\* Lock taken only by the methods of FormatCheckers
LockBegin_OnlyFormatCheckers(t) ==
    /\ pc[t] \in {"Add153", "Remove163"}
    /\ IF frame[t].c = "FormatCheckers"
       THEN /\ lock.w = "none"
            /\ lock' = [lock EXCEPT !.w = t]
            /\ pc' = [pc EXCEPT ![t] = IF pc[t] = "Add153" THEN "Add153w" ELSE "Remove163w"]
       ELSE /\ lock' = lock
            /\ pc' = [pc EXCEPT ![t] = IF pc[t] = "Add153" THEN "Add154" ELSE "Remove164"]
    /\ UNCHANGED <<formatters, frame, hist, seen, checkerVars, chainVars>>

\* lock.Lock(), first half: the writer excludes other writers and new readers
LockBegin(t) ==
    /\ pc[t] \in {"Add153", "Remove163"}
    /\ lock.w = "none"
    /\ lock' = [lock EXCEPT !.w = t]
    /\ pc' = [pc EXCEPT ![t] = IF pc[t] = "Add153" THEN "Add153w" ELSE "Remove163w"]
    /\ UNCHANGED <<formatters, frame, hist, seen, checkerVars, chainVars>>

\* Lock letting the writer in while readers hold the lock
LockEnd_NoDrain(t) ==
    /\ pc[t] \in {"Add153w", "Remove163w"}
    /\ lock.w = t
    /\ pc' = [pc EXCEPT ![t] = IF pc[t] = "Add153w" THEN "Add154" ELSE "Remove164"]
    /\ UNCHANGED <<formatters, lock, frame, hist, seen, checkerVars, chainVars>>

\* lock.Lock(), second half: the writer proceeds once the readers have left
LockEnd(t) ==
    /\ pc[t] \in {"Add153w", "Remove163w"}
    /\ lock.w = t
    /\ lock.readers = {}
    /\ pc' = [pc EXCEPT ![t] = IF pc[t] = "Add153w" THEN "Add154" ELSE "Remove164"]
    /\ UNCHANGED <<formatters, lock, frame, hist, seen, checkerVars, chainVars>>

\* the bindings of name in chain c seen by the IsFormat calls in flight, after
\* its map has become m
Observe(c, name, m) ==
    [u \in DOMAIN seen |->
        IF pc[u] \in {"IsFormat182", "IsFormat183", "IsFormat184", "IsFormat187"}
           /\ frame[u].c = c
           /\ frame[u].name = name
        THEN seen[u] \cup {MapLookup(m, name).f}
        ELSE seen[u]]

\* the map of chain c becomes m
SetFormatters(c, m) ==
    IF c = "FormatCheckers"
    THEN formatters' = m /\ chains' = chains
    ELSE formatters' = formatters /\ chains' = [chains EXCEPT ![c] = m]

\* Add, lines 154-155
AddStore(t) ==
    /\ pc[t] = "Add154"
    /\ LET m == MapStore(FormattersOf(frame[t].c), frame[t].name,
                         convertToNewChecker(frame[t].checker))
       IN  /\ SetFormatters(frame[t].c, m)
           /\ seen' = Observe(frame[t].c, frame[t].name, m)
    /\ pc' = [pc EXCEPT ![t] = "Add156"]
    /\ UNCHANGED <<lock, frame, hist, checkerVars, stack>>

\* Remove, line 164
RemoveDelete(t) ==
    /\ pc[t] = "Remove164"
    /\ LET m == MapDelete(FormattersOf(frame[t].c), frame[t].name)
       IN  /\ SetFormatters(frame[t].c, m)
           /\ seen' = Observe(frame[t].c, frame[t].name, m)
    /\ pc' = [pc EXCEPT ![t] = "Remove165"]
    /\ UNCHANGED <<lock, frame, hist, checkerVars, stack>>

\* lock.Unlock()
Unlock(t) ==
    /\ pc[t] \in {"Add156", "Remove165"}
    /\ lock' = [lock EXCEPT !.w = "none"]
    /\ pc' = [pc EXCEPT ![t] = IF pc[t] = "Add156" THEN "Add158" ELSE "Remove167"]
    /\ UNCHANGED <<formatters, frame, hist, seen, checkerVars, chainVars>>

\* t returns from a method: to its caller outside the package, or into the
\* checker that made the call, itself called at line 191 of a suspended IsFormat
Return(t) ==
    /\ pc' = [pc EXCEPT ![t] = IF stack[t] = <<>> THEN "idle" ELSE "IsFormat191"]
    /\ frame' = [frame EXCEPT ![t] = IF stack[t] = <<>> THEN NoFrame ELSE Head(stack[t])]
    /\ stack' = [stack EXCEPT ![t] = IF @ = <<>> THEN @ ELSE Tail(@)]

\* return c
ReturnChain(t) ==
    /\ pc[t] \in {"Add158", "Remove167"}
    /\ hist' = Record(t, [op |-> IF pc[t] = "Add158" THEN "Add" ELSE "Remove",
                          name |-> frame[t].name, checker |-> frame[t].checker,
                          input |-> NoInput, ret |-> "FormatCheckers"])
    /\ Return(t)
    /\ UNCHANGED <<formatters, lock, seen, checkerVars, chains>>

\* RLock letting a reader in past a writer
RLock_IgnoresWriter(t) ==
    /\ pc[t] \in {"Has172", "IsFormat182"}
    /\ lock' = [lock EXCEPT !.readers = @ \cup {t}]
    /\ pc' = [pc EXCEPT ![t] = IF pc[t] = "Has172" THEN "Has173" ELSE "IsFormat183"]
    /\ UNCHANGED <<formatters, frame, hist, seen, checkerVars, chainVars>>

\* lock.RLock(): a reader waits while a writer holds or awaits the lock
RLock(t) ==
    /\ pc[t] \in {"Has172", "IsFormat182"}
    /\ lock.w = "none"
    /\ lock' = [lock EXCEPT !.readers = @ \cup {t}]
    /\ pc' = [pc EXCEPT ![t] = IF pc[t] = "Has172" THEN "Has173" ELSE "IsFormat183"]
    /\ UNCHANGED <<formatters, frame, hist, seen, checkerVars, chainVars>>

\* t is between lock.Lock() and lock.Unlock()
InWrite(t) == pc[t] \in {"Add154", "Add156", "Remove164", "Remove165"}

\* t is between lock.RLock() and lock.RUnlock()
InRead(t) == pc[t] \in {"Has173", "Has174", "IsFormat183", "IsFormat184"}

\* Has, line 173, and IsFormat, line 183.  A map read that is concurrent with a
\* writer of the same map is a data race: the runtime may stop the program
\* ("concurrent map read and map write") or the read may yield the entry of any
\* bucket or none.
Lookup(t) ==
    /\ pc[t] \in {"Has173", "IsFormat183"}
    /\ LET m == FormattersOf(frame[t].c)
       IN  IF \E u \in DOMAIN pc \ {t} : InWrite(u) /\ frame[u].c = frame[t].c
           THEN \/ /\ pc' = [pc EXCEPT ![t] = "fatal"]
                   /\ frame' = frame
                \/ /\ \E r \in {MapLookup(m, k) : k \in DOMAIN m}
                                 \cup {[f |-> Nil, ok |-> FALSE]} :
                        frame' = [frame EXCEPT ![t].f = r.f, ![t].ok = r.ok]
                   /\ pc' = [pc EXCEPT ![t] =
                                IF pc[t] = "Has173" THEN "Has174" ELSE "IsFormat184"]
           ELSE /\ LET r == MapLookup(m, frame[t].name)
                   IN  frame' = [frame EXCEPT ![t].f = r.f, ![t].ok = r.ok]
                /\ pc' = [pc EXCEPT ![t] =
                             IF pc[t] = "Has173" THEN "Has174" ELSE "IsFormat184"]
    /\ UNCHANGED <<formatters, lock, hist, seen, checkerVars, chainVars>>

\* IsFormat going on to the checker with the read lock still held
RUnlock_NotBeforeChecker(t) ==
    /\ pc[t] \in {"Has174", "IsFormat184"}
    /\ lock' = IF pc[t] = "Has174" THEN [lock EXCEPT !.readers = @ \ {t}] ELSE lock
    /\ pc' = [pc EXCEPT ![t] = IF pc[t] = "Has174" THEN "Has176" ELSE "IsFormat187"]
    /\ UNCHANGED <<formatters, frame, hist, seen, checkerVars, chainVars>>

\* lock.RUnlock()
RUnlock(t) ==
    /\ pc[t] \in {"Has174", "IsFormat184"}
    /\ lock' = [lock EXCEPT !.readers = @ \ {t}]
    /\ pc' = [pc EXCEPT ![t] = IF pc[t] = "Has174" THEN "Has176" ELSE "IsFormat187"]
    /\ UNCHANGED <<formatters, frame, hist, seen, checkerVars, chainVars>>

\* Has: return ok
HasReturn(t) ==
    /\ pc[t] = "Has176"
    /\ hist' = Record(t, [op |-> "Has", name |-> frame[t].name, checker |-> "nil",
                          input |-> NoInput, ret |-> frame[t].ok])
    /\ Return(t)
    /\ UNCHANGED <<formatters, lock, seen, checkerVars, chains>>

\* the checker IsFormat has resolved calls a method of the registry before it
\* returns: it is a ReentrantChecker, and fewer than MaxDepth IsFormat calls of
\* the thread are already suspended in such a checker
Reenters(t) ==
    /\ frame[t].ok
    /\ frame[t].f = convertToNewChecker("ReentrantChecker")
    /\ Len(stack[t]) < MaxDepth

\* IsFormat, line 191: f.IsFormat(input) runs, and the checker calls Add,
\* Remove, Has or IsFormat on a chain
CheckerCall(t) ==
    /\ pc[t] = "IsFormat187"
    /\ Reenters(t)
    /\ stack' = [stack EXCEPT ![t] = <<frame[t]>> \o @]
    /\ \E c \in ReceiverArgs : Enter(t, c)
    /\ UNCHANGED <<formatters, lock, hist, checkerVars, chains>>

\* IsFormat, lines 187-191: return true, or what the checker returns
IsFormatDone(t) ==
    /\ \/ pc[t] = "IsFormat187" /\ ~Reenters(t)
       \/ pc[t] = "IsFormat191"
    /\ hist' = Record(t, [op |-> "IsFormat", name |-> frame[t].name, checker |-> "nil",
                          input |-> frame[t].input,
                          ret |-> IsFormatReturn(frame[t].f, frame[t].ok, frame[t].input)])
    /\ Return(t)
    /\ seen' = SeenStart(t, {})
    /\ UNCHANGED <<formatters, lock, checkerVars, chains>>

NoHost == [n |-> 0, threads |-> {}, done |-> TRUE, dots |-> 0, len |-> 0, ok |-> TRUE, hy |-> FALSE]

\* the program has no FormatCheckerChain but FormatCheckers
NoChains == [c \in {} |-> BuiltinFormatters]

\* map[string]FormatCheckerWithError{}
NoFormatters == [name \in {} |-> Nil]

\* the program at start, with the given threads and the given chains beside
\* FormatCheckers; the IsFormat calls of Threads and "main" are observed
InitProgram(callers, others) ==
    /\ formatters = BuiltinFormatters
    /\ lock = [w |-> "none", readers |-> {}]
    /\ pc = [t \in callers |-> "idle"]
    /\ frame = [t \in callers |-> NoFrame]
    /\ hist = <<>>
    /\ seen = [t \in callers \cap (Threads \cup {"main"}) |-> {}]
    /\ asString = <<>>
    /\ verdict = <<>>
    /\ host = NoHost
    /\ chains = [c \in others |-> NoFormatters]
    /\ stack = [t \in callers |-> <<>>]

InitRegistry(callers) == InitProgram(callers, {})

\* the registry under concurrent callers
Init == InitRegistry(Threads)

Next ==
    \/ \E t \in DOMAIN pc : Call(t)
    \/ \E t \in DOMAIN pc : LockBegin(t)
    \/ \E t \in DOMAIN pc : LockEnd(t)
    \/ \E t \in DOMAIN pc : AddStore(t)
    \/ \E t \in DOMAIN pc : RemoveDelete(t)
    \/ \E t \in DOMAIN pc : Unlock(t)
    \/ \E t \in DOMAIN pc : ReturnChain(t)
    \/ \E t \in DOMAIN pc : RLock(t)
    \/ \E t \in DOMAIN pc : Lookup(t)
    \/ \E t \in DOMAIN pc : RUnlock(t)
    \/ \E t \in DOMAIN pc : HasReturn(t)
    \/ \E t \in DOMAIN pc : IsFormatDone(t)

Spec == Init /\ [][Next]_vars

\* the registry under one caller, whose completed calls are recorded
InitSeq == InitRegistry({"main"})

SpecSeq == InitSeq /\ [][Next]_vars

\* two chains under concurrent callers: FormatCheckers and a chain whose map
\* starts empty
InitChains == InitProgram(ChainThreads, {"other"})

SpecChains == InitChains /\ [][Next]_vars

\* the registry under concurrent callers that register checkers which call
\* the registry themselves
InitReentrant == InitProgram(ReentrantThreads, {})

NextReentrant ==
    \/ Next
    \/ \E t \in DOMAIN pc : CheckerCall(t)

\* a thread inside a method or a checker keeps running; a thread waiting in
\* Lock or RLock gets the lock if it is free again and again: sync.Mutex hands
\* the lock to a starving waiter, and Unlock wakes every reader that waits
Fairness ==
    \A t \in ReentrantThreads :
        /\ WF_vars(LockEnd(t))
        /\ WF_vars(AddStore(t))
        /\ WF_vars(RemoveDelete(t))
        /\ WF_vars(Unlock(t))
        /\ WF_vars(ReturnChain(t))
        /\ WF_vars(Lookup(t))
        /\ WF_vars(RUnlock(t))
        /\ WF_vars(HasReturn(t))
        /\ WF_vars(CheckerCall(t))
        /\ WF_vars(IsFormatDone(t))
        /\ SF_vars(LockBegin(t))
        /\ SF_vars(RLock(t))

SpecReentrant == InitReentrant /\ [][NextReentrant]_vars /\ Fairness

(***************************************************************************)
(* The uri-template checker applied to a text.                             *)
(***************************************************************************)
TemplateChars == {"a", ":", "?", "#", "{", "}", "\\"}

TemplateStrings == UNION {[1..n -> TemplateChars] : n \in 0..MaxTemplateLen}

InitTemplate ==
    /\ asString \in TemplateStrings
    /\ verdict = <<>>
    /\ formatters = BuiltinFormatters
    /\ lock = [w |-> "none", readers |-> {}]
    /\ pc = [t \in {} |-> "idle"]
    /\ frame = [t \in {} |-> NoFrame]
    /\ hist = <<>>
    /\ seen = [t \in {} |-> {}]
    /\ host = NoHost
    /\ chains = NoChains
    /\ stack = [t \in {} |-> <<>>]

\* URITemplateFormatChecker{}.IsFormat(asString)
TemplateCheck ==
    /\ verdict = <<>>
    /\ verdict' = <<URITemplateFormatChecker(Str(asString))>>
    /\ UNCHANGED <<formatters, lock, pc, frame, hist, seen, asString, host, chainVars>>

SpecTemplate == InitTemplate /\ [][TemplateCheck]_vars

(***************************************************************************)
(* The hostname checker at work on a text: host.n characters have been     *)
(* read and host.threads is the state of the matcher of rxHostname.  The   *)
(* other fields describe the text read so far: whether every label a dot   *)
(* has ended was well formed (done), whether a dot has been read (dots),   *)
(* the length of the label being read, counted up to 64 (len), whether its *)
(* characters so far are letters, digits or hyphens and the first is not a *)
(* hyphen (ok), and whether the last character read is a hyphen (hy).      *)
(***************************************************************************)
HostChars == {"a", "-", ".", "_"}

\* the label being read has 1 to 63 characters, all letters, digits or
\* hyphens, and neither starts nor ends with a hyphen
LabelOK(h) == h.len >= 1 /\ h.len <= 63 /\ h.ok /\ ~h.hy

InitHost ==
    /\ host = [NoHost EXCEPT !.threads = {rxHostname}]
    /\ asString = <<>>
    /\ verdict = <<>>
    /\ formatters = BuiltinFormatters
    /\ lock = [w |-> "none", readers |-> {}]
    /\ pc = [t \in {} |-> "idle"]
    /\ frame = [t \in {} |-> NoFrame]
    /\ hist = <<>>
    /\ seen = [t \in {} |-> {}]
    /\ chains = NoChains
    /\ stack = [t \in {} |-> <<>>]

\* the matcher reads the next character of the text
HostRead(c) ==
    /\ host.n < MaxHostLen
    /\ host' =
         IF c = "."
         THEN [n |-> host.n + 1, threads |-> RxStep(host.threads, c),
               done |-> host.done /\ LabelOK(host), dots |-> 1,
               len |-> 0, ok |-> TRUE, hy |-> FALSE]
         ELSE [n |-> host.n + 1, threads |-> RxStep(host.threads, c),
               done |-> host.done, dots |-> host.dots,
               len |-> IF host.len < 64 THEN host.len + 1 ELSE 64,
               ok |-> host.ok /\ c \in AlNum \cup {"-"} /\ (host.len = 0 => c # "-"),
               hy |-> c = "-"]
    /\ UNCHANGED <<formatters, lock, pc, frame, hist, seen, asString, verdict, chainVars>>

NextHost == \E c \in HostChars : HostRead(c)

SpecHostname == InitHost /\ [][NextHost]_vars

(***************************************************************************)
(* What the recorded calls say about the registry.  Call j of hist sees    *)
(* the registry the calls before it have left: a name is bound when the    *)
(* last Add or Remove of it before j was an Add, or when there was none    *)
(* and the name is one of the initial registry.                            *)
(***************************************************************************)
MutationsBefore(j, name) ==
    {i \in 1..(j - 1) : hist[i].op \in {"Add", "Remove"} /\ hist[i].name = name}

LastMutationBefore(j, name) ==
    CHOOSE i \in MutationsBefore(j, name) : \A k \in MutationsBefore(j, name) : k <= i

BoundBefore(j, name) ==
    IF MutationsBefore(j, name) = {} THEN name \in DOMAIN BuiltinFormatters
    ELSE hist[LastMutationBefore(j, name)].op = "Add"

\* the checker name is bound to before call j, when it is bound
CheckerBefore(j, name) ==
    IF MutationsBefore(j, name) = {} THEN BuiltinFormatters[name].checker
    ELSE hist[LastMutationBefore(j, name)].checker

\* C1: in every registry state, initial or left by any sequence of Add and
\* Remove calls, IsFormat(name, value) returns true for every value when no
\* checker is registered under name, a removed built-in name included.
C1_UnregisteredPasses ==
    /\ \A j \in 1..Len(hist) :
          (hist[j].op = "IsFormat" /\ ~BoundBefore(j, hist[j].name)) => hist[j].ret = TRUE
    /\ pc["main"] = "idle" =>
          \A name \in NameArgs \ DOMAIN formatters, v \in Values :
              IsFormatOn(formatters, name, v) = TRUE

\* an IsFormat call on the built-in name "hostname" after its removal, on a value
\* the hostname checker rejects, has returned true
C1_Witness ==
    \E j \in 1..Len(hist) :
        /\ hist[j].op = "IsFormat"
        /\ hist[j].name = "hostname"
        /\ hist[j].input = Str(<<"-">>)
        /\ ~BoundBefore(j, "hostname")
        /\ hist[j].ret = TRUE

\* C2 as stated: IsFormat(f, v) is false for every value v that is not a
\* string and every registered format name f.
C2_NonStringRejected ==
    /\ \A j \in 1..Len(hist) :
          (/\ hist[j].op = "IsFormat"
           /\ BoundBefore(j, hist[j].name)
           /\ hist[j].input.type \in NonStringTypes) => hist[j].ret = FALSE
    /\ pc["main"] = "idle" =>
          \A name \in DOMAIN formatters, t \in NonStringTypes :
              IsFormatOn(formatters, name, NonString(t)) = FALSE

\* C2 as amended: IsFormat(f, v) is false for every value v that is not a
\* string and every format name f that is bound to one of the built-in checkers.
C2_NonStringRejectedByBuiltins ==
    /\ \A j \in 1..Len(hist) :
          (/\ hist[j].op = "IsFormat"
           /\ BoundBefore(j, hist[j].name)
           /\ CheckerBefore(j, hist[j].name) \in BuiltinCheckers
           /\ hist[j].input.type \in NonStringTypes) => hist[j].ret = FALSE
    /\ pc["main"] = "idle" =>
          \A name \in DOMAIN formatters, t \in NonStringTypes :
              formatters[name].checker \in BuiltinCheckers =>
                  IsFormatOn(formatters, name, NonString(t)) = FALSE

\* IsFormat has returned false for null under a name to which the hostname
\* checker was added
C2_Witness ==
    \E i, j \in 1..Len(hist) :
        /\ i < j
        /\ hist[i].op = "Add"
        /\ hist[i].name = "x-custom"
        /\ hist[i].checker = "HostnameFormatChecker"
        /\ hist[j].op = "IsFormat"
        /\ hist[j].name = "x-custom"
        /\ hist[j].input = NonString("null")
        /\ MutationsBefore(j, "x-custom") = {i}
        /\ hist[j].ret = FALSE

(***************************************************************************)
(* The registry under concurrent callers.                                  *)
(***************************************************************************)
\* C3: under any interleaving of Add, Remove, Has and IsFormat, a thread
\* that is between Lock and Unlock in Add or Remove is never concurrent with
\* another thread between its lock and unlock calls, reader or writer, and no
\* map access has raced.
C3_WritersExclude ==
    \A t \in Threads :
        /\ pc[t] # "fatal"
        /\ InWrite(t) => \A u \in Threads \ {t} : ~InWrite(u) /\ ~InRead(u)

\* a writer is about to store into the map while the other thread waits at RLock
C3_Witness ==
    \E t, u \in Threads :
        /\ pc[t] = "Add154"
        /\ pc[u] = "IsFormat182"
        /\ frame[u].name = frame[t].name

\* two readers are between RLock and RUnlock at the same time
C3_ReadersShare ==
    \E t, u \in Threads : t # u /\ pc[t] = "IsFormat183" /\ pc[u] = "Has173"

\* what IsFormat is to return for input when the name's binding is b
VerdictUnder(b, input) == IF b = Nil THEN TRUE ELSE CheckerIsFormat(b.checker, input)

\* C4: the boolean an IsFormat(name, v) call returns is what IsFormat(name, v)
\* returns on the registry as it was at some moment of the call: when the call
\* races a Remove(name), the registered checker's verdict on v or true, and
\* nothing else.
C4_Linearizable ==
    \A t \in Threads :
        /\ pc[t] # "fatal"
        /\ pc[t] = "IsFormat187" =>
              \E b \in seen[t] :
                  IsFormatReturn(frame[t].f, frame[t].ok, frame[t].input)
                      = VerdictUnder(b, frame[t].input)

\* an IsFormat("hostname", null) call is about to return while "hostname" has
\* been removed during the call: it looked the name up before the removal and
\* returns the hostname checker's verdict, false
C4_Witness ==
    \E t \in Threads :
        /\ pc[t] = "IsFormat187"
        /\ frame[t].name = "hostname"
        /\ frame[t].input = NonString("null")
        /\ seen[t] = {BuiltinFormatters["hostname"], Nil}
        /\ "hostname" \notin DOMAIN formatters
        /\ IsFormatReturn(frame[t].f, frame[t].ok, frame[t].input) = FALSE

\* the same call returns true when it looked the name up after the removal
C4_WitnessAfter ==
    \E t \in Threads :
        /\ pc[t] = "IsFormat187"
        /\ frame[t].name = "hostname"
        /\ frame[t].input = NonString("null")
        /\ seen[t] = {BuiltinFormatters["hostname"], Nil}
        /\ IsFormatReturn(frame[t].f, frame[t].ok, frame[t].input) = TRUE

(***************************************************************************)
(* Add and Remove as the sequential caller sees them.                      *)
(***************************************************************************)
\* every format name of the model
AllNames == DOMAIN BuiltinFormatters \cup NameArgs

\* the binding of name the calls before call j have left, Nil when it has none
BindingBefore(j, name) ==
    IF BoundBefore(j, name) THEN [checker |-> CheckerBefore(j, name)] ELSE Nil

\* no Add or Remove of name lies strictly between calls i and j
Untouched(i, j, name) == MutationsBefore(j, name) \cap ((i + 1)..(j - 1)) = {}

\* the sequential caller has completed n calls and is between calls
Completed(n) == pc["main"] = "idle" /\ Len(hist) = n

\* C5: Add(name, c) inserts the binding name -> c or overwrites the existing
\* one, leaves the bindings of all other names unchanged and returns the
\* registry; until the next Add or Remove of name, Has(name) is true and
\* IsFormat(name, v) returns the verdict of c on v, for every value v.
C5_AddBinds ==
    /\ \A n \in 1..Len(hist) :
          (Completed(n) /\ hist[n].op = "Add") =>
              /\ hist[n].ret = "FormatCheckers"
              /\ MapLookup(formatters, hist[n].name)
                    = [f |-> [checker |-> hist[n].checker], ok |-> TRUE]
              /\ \A k \in AllNames \ {hist[n].name} :
                    MapLookup(formatters, k).f = BindingBefore(n, k)
    /\ \A i, j \in 1..Len(hist) :
          (/\ i < j
           /\ hist[i].op = "Add"
           /\ hist[j].name = hist[i].name
           /\ Untouched(i, j, hist[i].name)) =>
              /\ hist[j].op = "Has" => hist[j].ret = TRUE
              /\ hist[j].op = "IsFormat" =>
                    hist[j].ret = CheckerIsFormat(hist[i].checker, hist[j].input)

\* Add("hostname", AnyValueChecker) has overwritten the built-in binding, a
\* call on another name has followed, and IsFormat("hostname", null) has then
\* returned the verdict of the added checker, true
C5_Witness ==
    /\ Len(hist) = 3
    /\ hist[1].op = "Add"
    /\ hist[1].name = "hostname"
    /\ hist[1].checker = "AnyValueChecker"
    /\ hist[2].op = "Remove"
    /\ hist[2].name = "x-custom"
    /\ hist[3].op = "IsFormat"
    /\ hist[3].name = "hostname"
    /\ hist[3].input = NonString("null")
    /\ hist[3].ret = TRUE

\* C6: Remove(name) deletes the binding of name when there is one, so that
\* Has(name) is false afterwards; when there is none it leaves the whole
\* registry unchanged; either way the bindings of all other names are
\* unchanged and the registry is returned.
C6_RemoveUnbinds ==
    /\ \A n \in 1..Len(hist) :
          (Completed(n) /\ hist[n].op = "Remove") =>
              /\ hist[n].ret = "FormatCheckers"
              /\ hist[n].name \notin DOMAIN formatters
              /\ \A k \in AllNames \ {hist[n].name} :
                    MapLookup(formatters, k).f = BindingBefore(n, k)
              /\ ~BoundBefore(n, hist[n].name) =>
                    \A k \in AllNames : MapLookup(formatters, k).f = BindingBefore(n, k)
    /\ \A i, j \in 1..Len(hist) :
          (/\ i < j
           /\ hist[i].op = "Remove"
           /\ hist[j].op = "Has"
           /\ hist[j].name = hist[i].name
           /\ Untouched(i, j, hist[i].name)) => hist[j].ret = FALSE

\* Remove("x-custom") of a name that has no binding, then Remove("hostname")
\* of a built-in name, then Has("hostname") has returned false
C6_Witness ==
    /\ Len(hist) = 3
    /\ hist[1].op = "Remove"
    /\ hist[1].name = "x-custom"
    /\ hist[2].op = "Remove"
    /\ hist[2].name = "hostname"
    /\ hist[3].op = "Has"
    /\ hist[3].name = "hostname"
    /\ hist[3].ret = FALSE
    /\ DOMAIN formatters = DOMAIN BuiltinFormatters \ {"hostname"}

\* C7: after Add(name, c) directly followed by Remove(name), name has no
\* binding: Has(name) is false and IsFormat(name, v) is true for every v, so
\* Has(name) equals what it was before the Add exactly when name had no
\* binding before the Add; a binding that existed before is not restored.
C7_NoUndo ==
    \A i \in 1..Len(hist) :
        (/\ i + 1 <= Len(hist)
         /\ hist[i].op = "Add"
         /\ hist[i + 1].op = "Remove"
         /\ hist[i + 1].name = hist[i].name) =>
            /\ Completed(i + 1) =>
                  /\ HasOn(formatters, hist[i].name) = FALSE
                  /\ (HasOn(formatters, hist[i].name) = BoundBefore(i, hist[i].name))
                        <=> ~BoundBefore(i, hist[i].name)
                  /\ \A v \in Values : IsFormatOn(formatters, hist[i].name, v) = TRUE
            /\ \A j \in (i + 2)..Len(hist) :
                  (hist[j].name = hist[i].name /\ Untouched(i + 1, j, hist[i].name)) =>
                      /\ hist[j].op = "Has" =>
                            /\ hist[j].ret = FALSE
                            /\ (hist[j].ret = BoundBefore(i, hist[i].name))
                                  <=> ~BoundBefore(i, hist[i].name)
                      /\ hist[j].op = "IsFormat" => hist[j].ret = TRUE

\* Add("hostname", c) then Remove("hostname"): Has("hostname"), true before
\* the Add, has returned false
C7_Witness ==
    /\ Len(hist) = 3
    /\ hist[1].op = "Add"
    /\ hist[1].name = "hostname"
    /\ hist[1].checker = "HostnameFormatChecker"
    /\ hist[2].op = "Remove"
    /\ hist[2].name = "hostname"
    /\ hist[3].op = "Has"
    /\ hist[3].name = "hostname"
    /\ hist[3].ret = FALSE
    /\ BoundBefore(1, "hostname")

\* no Add or Remove call has been made
NoMutationYet ==
    /\ \A j \in 1..Len(hist) : hist[j].op \in {"Has", "IsFormat"}
    /\ pc["main"] \in {"idle", "Has172", "Has173", "Has174", "Has176",
                       "IsFormat182", "IsFormat183", "IsFormat184", "IsFormat187"}

\* C8: in the initial state of FormatCheckers, before any Add or Remove,
\* Has(name) is true for each of the seventeen built-in names, and
\* IsFormat("uri", v) = IsFormat("iri", v) and
\* IsFormat("email", v) = IsFormat("idn-email", v) for every value v.
C8_InitialRegistry ==
    NoMutationYet =>
        /\ \A name \in {"date", "time", "date-time", "hostname", "email", "idn-email",
                        "ipv4", "ipv6", "uri", "uri-reference", "iri", "iri-reference",
                        "uri-template", "uuid", "regex", "json-pointer",
                        "relative-json-pointer"} : HasOn(formatters, name) = TRUE
        /\ \A v \in Values :
              /\ IsFormatOn(formatters, "uri", v) = IsFormatOn(formatters, "iri", v)
              /\ IsFormatOn(formatters, "email", v) = IsFormatOn(formatters, "idn-email", v)
        /\ \A j \in 1..Len(hist) :
              (hist[j].op = "Has" /\ hist[j].name \in DOMAIN BuiltinFormatters) =>
                  hist[j].ret = TRUE

\* Has("hostname") has returned true before any Add or Remove
C8_Witness ==
    /\ NoMutationYet
    /\ \E j \in 1..Len(hist) :
          hist[j].op = "Has" /\ hist[j].name = "hostname" /\ hist[j].ret = TRUE

(***************************************************************************)
(* The uri-template and hostname checkers against their grammars.          *)
(***************************************************************************)
\* scanning s from position i, inside an expression when open: every '{'
\* comes outside an expression and is closed, every '}' closes one
RECURSIVE BalancedFrom(_, _, _)
BalancedFrom(s, i, open) ==
    IF i > Len(s) THEN ~open
    ELSE IF s[i] = "{" THEN ~open /\ BalancedFrom(s, i + 1, TRUE)
    ELSE IF s[i] = "}" THEN open /\ BalancedFrom(s, i + 1, FALSE)
    ELSE BalancedFrom(s, i + 1, open)

\* C9: for a string that parses as a URI reference and holds no backslash,
\* the uri-template checker returns true exactly when the template
\* expressions of the path, scanned left to right, are balanced and not
\* nested: an unclosed '{', a '}' that closes nothing and a '{' inside an
\* open expression are each rejected.
C9_TemplateBalanced ==
    (/\ verdict # <<>>
     /\ ~urlParse(asString).err
     /\ ~Contains(asString, "\\")) =>
        verdict[1] = BalancedFrom(urlParse(asString).Path, 1, FALSE)

\* C10: the hostname checker accepts a string exactly when it is one or more
\* labels separated by dots, each of 1 to 63 letters, digits or hyphens that
\* neither starts nor ends with a hyphen, and the string is shorter than 256
\* characters; the empty string and a label of 255 characters are rejected.
C10_HostnameGrammar ==
    HostnameVerdict(host.threads, host.n) = (host.done /\ LabelOK(host) /\ host.n < 256)

\* 255 characters without a dot, letters, digits or hyphens with neither
\* first nor last a hyphen, have been read and the verdict is false
C10_Witness ==
    /\ host.n = 255
    /\ host.dots = 0
    /\ host.ok
    /\ ~host.hy
    /\ ~HostnameVerdict(host.threads, host.n)

\* a text of 255 characters in well-formed labels is accepted
C10_WitnessAccepted ==
    /\ host.n = 255
    /\ host.done
    /\ LabelOK(host)
    /\ HostnameVerdict(host.threads, host.n)

(***************************************************************************)
(* Two chains under one lock.                                              *)
(***************************************************************************)
\* t is between its lock and unlock calls in a method of chain c
InLocked(t, c) == (InWrite(t) \/ InRead(t)) /\ frame[t].c = c

\* C11: all FormatCheckerChain values share the one package-level lock: while
\* a thread is between Lock and Unlock in Add or Remove on one chain, no other
\* thread is between its lock and unlock calls in Has, IsFormat, Add or Remove
\* on another chain, though the two chains have maps of their own.
C11_ChainsShareLock ==
    \A t, u \in ChainThreads :
        \A c, d \in ReceiverArgs :
            (t # u /\ c # d /\ InWrite(t) /\ frame[t].c = c) => ~InLocked(u, d)

\* a thread is about to store into the map of the other chain, which then
\* differs from the map of FormatCheckers, while another thread waits at RLock
\* in IsFormat on FormatCheckers
C11_Witness ==
    \E t, u \in ChainThreads :
        /\ pc[t] = "Add154"
        /\ frame[t].c = "other"
        /\ lock.w = t
        /\ pc[u] = "IsFormat182"
        /\ frame[u].c = "FormatCheckers"
        /\ "x-custom" \in DOMAIN formatters
        /\ "x-custom" \notin DOMAIN chains["other"]

(***************************************************************************)
(* Checkers that call the registry.                                        *)
(***************************************************************************)
\* t holds the lock neither as a reader nor as a writer
HoldsNoLock(t) == t \notin lock.readers /\ lock.w # t

\* t is past the unlock call of a method, or outside every method
Released(t) ==
    pc[t] \in {"idle", "Add158", "Remove167", "Has176", "IsFormat187", "IsFormat191"}

====
